---- MODULE Spec2Model ----
(***************************************************************************)
(* Crawlee Cloud: the run dispatcher of the runner service and the         *)
(* request-queue routes of the API, as state machines.                     *)
(*                                                                         *)
(* Every `await` of the TypeScript source is a point where another task    *)
(* may run, so every database statement and every Redis command is one     *)
(* atomic step, and the synchronous code between two awaits belongs to the *)
(* step of the await before it.                                            *)
(*                                                                         *)
(*   SpecDispatch  runner workers claiming READY runs      (job queue)     *)
(*   SpecDrive     the same, with drivers that are scheduled fairly        *)
(*   SpecOrphan    the same, with runner processes that may die            *)
(*   SpecRuns      the same, with the /actor-runs routes                   *)
(*   SpecPush      PushItems calls on one dataset                          *)
(*   SpecAdd       AddRequest / AddRequestsBatch / UpdateRequest           *)
(*   SpecLock      AcquireHead / ProlongLock / ReleaseLock / UpdateRequest *)
(*                 with a clock, so that leases expire                     *)
(***************************************************************************)
EXTENDS Integers, Sequences, FiniteSets, TLC

\* ------------------------------------------------------------------ bounds
NumWorkers == 2          \* runner processes sharing the runs table
NumRuns == 2             \* runs created through the API
NumHandlers == 2         \* HTTP requests in flight at once
MaxBatch == 2            \* longest body of a batch add
MaxCalls == 3            \* HTTP calls started in one behaviour of SpecLock
MaxAddCalls == 3         \* HTTP calls started in one behaviour of SpecAdd
MaxTime == 2             \* the clock runs from 0 to MaxTime
MaxLockSecs == 1         \* lockSecs is drawn from 1..MaxLockSecs
MaxLimit == 2            \* the limit of AcquireHead is drawn from 1..MaxLimit
MaxProlongSecs == 2      \* lockSecs of ProlongLock is drawn from 1..MaxProlongSecs
MaxHeadCalls == 4        \* HTTP calls started in one behaviour of SpecHead
MaxApiCalls == 3         \* /actor-runs calls made in one behaviour of SpecRuns
MaxPushCalls == 3        \* HTTP calls started in one behaviour of SpecPush
MaxItems == 2            \* longest body of a PushItems call
MaxLines == 3            \* lines a container writes to its output
MaxChunk == 2            \* lines in one chunk of the output stream
MaxLogCalls == 1         \* calls of the log append route
LogCap == 2              \* entries LTRIM keeps (1000 in the code, scaled down)

\* MAX_CONCURRENT_RUNS as configured for the modelled runner (the default is 10)
maxConcurrentRuns == 1

Workers == 1..NumWorkers
RunIds == 1..NumRuns
Handlers == 1..NumHandlers
Clients == {"W1", "W2"}
Keys == {"a", "b"}
NoClient == "none"       \* SQL NULL in locked_by, a missing Redis key
NullTime == -1           \* SQL NULL in locked_until
NoRun == 0
NoReq == 0

VARIABLES
  \* ---- runner (job queue) ----
  runs,          \* runs table: run id -> [status, finishedAt, default*Id]
  isProcessing,  \* per worker process: the claim-in-progress flag
  activeRuns,    \* per worker process: drivers in flight
  claimPc,       \* per worker: where its processNextRun call stands
  claimRun,      \* per worker: the row its SELECT returned
  drivers,       \* processRun tasks in flight: <<worker, run>> -> pc
  dispatched,    \* history: run id -> the workers that called processRun on it
  execs,         \* executeRun calls in flight: <<worker, run>> -> [exitCode, timedOut]
  creates,       \* POST /acts/:actorId/runs handlers: run id -> pc
  storages,      \* the ids in the datasets, key_value_stores and request_queues
                 \* tables, and the stores that hold an INPUT record
  published,     \* the run ids published on the run:new channel
  runResp,       \* the response of the latest /actor-runs call
  \* ---- request queue ----
  requests,      \* requests table: request id -> row
  queue,         \* the request_queues row of the one queue modelled
  orderSeq,      \* the BIGSERIAL sequence behind order_no
  redisLock,     \* Redis lock keys: request id -> [holder, exp]
  redisHead,     \* Redis sorted set queue:<id>:head: request id -> score
  now,           \* the clock (seconds)
  hs,            \* HTTP handlers: handler -> its local state
  calls,         \* HTTP calls started so far
  handledIncs,   \* history: request id -> times its update bumped handled_request_count
  lockedEver,    \* history: the <<clientKey, request id>> pairs AcquireHead has locked
  \* ---- dataset ----
  dataset,       \* the datasets row of the one dataset modelled
  objects,       \* the dataset's objects in the blob store: item index -> item
  pushes,        \* PushItems handlers: handler -> its local state
  pushCalls,     \* PushItems calls started so far
  accepted,      \* history: PushItems call -> the number of items in its body
  \* ---- logs of one run ----
  ring,          \* the Redis list logs:<runId>
  sub,           \* the WebSocket subscriber: [pc, sent], sent the entries
                 \* written to its socket
  streams,       \* the 'data' handlers of streamLogs: [lines, idx, pc] each
  emitted,       \* the lines the container has written so far
  driverLogs,    \* the messages executeRun itself has pushed so far
  appendLog      \* the handler of POST /actor-runs/:runId/logs: [pc, call]

runnerVars == <<runs, isProcessing, activeRuns, claimPc, claimRun, drivers, dispatched,
                execs, creates, storages, published, runResp>>
queueVars == <<requests, queue, orderSeq, redisLock, redisHead, now, hs, calls, handledIncs, lockedEver>>
datasetVars == <<dataset, objects, pushes, pushCalls, accepted>>
logVars == <<ring, sub, streams, emitted, driverLogs, appendLog>>
vars == <<runs, isProcessing, activeRuns, claimPc, claimRun, drivers, dispatched,
          execs, creates, storages, published, runResp,
          requests, queue, orderSeq, redisLock, redisHead, now, hs, calls, handledIncs, lockedEver,
          dataset, objects, pushes, pushCalls, accepted,
          ring, sub, streams, emitted, driverLogs, appendLog>>

\* =================================================================== runner
Terminal == {"SUCCEEDED", "FAILED", "TIMED-OUT", "ABORTED"}

NoId == 0                \* SQL NULL in a default_*_id column

NoRow == [status |-> "NONE", finishedAt |-> FALSE,
          defaultDatasetId |-> NoId, defaultKeyValueStoreId |-> NoId,
          defaultRequestQueueId |-> NoId]

\* nanoid() in POST /acts/:actorId/runs: an id no other call produces; `r`
\* numbers the call and `k` the nanoid() call within it
NanoId(r, k) == r * 10 + k

\* SELECT * FROM runs WHERE status = 'READY' ORDER BY created_at ASC LIMIT 1
\* FOR UPDATE SKIP LOCKED, sent through pool.query: a statement of its own, in
\* no transaction, so its row lock is gone when the statement returns and no
\* other statement ever finds the row locked.
ReadyRuns == {r \in RunIds : runs[r].status = "READY"}

OldestReady == IF ReadyRuns = {} THEN NoRun
               ELSE CHOOSE r \in ReadyRuns : \A s \in ReadyRuns : r <= s

\* a mapping that has no case for the stop signal
FinalStatusNoTimeout(exitCode) == IF exitCode = 0 THEN "SUCCEEDED" ELSE "FAILED"

\* exit code -> final status
FinalStatus(exitCode) ==
  IF exitCode = 0 THEN "SUCCEEDED"
  ELSE IF exitCode = 143 THEN "TIMED-OUT"
  ELSE "FAILED"

ExitCodes == {0, 1, 143}

\* the locals of one executeRun call: let exitCode = 0, let timedOut = false
NoExec == [exitCode |-> 0, timedOut |-> FALSE]

\* the response of no call at all
NoResp == [op |-> "none", run |-> NoRun, code |-> 0, call |-> 0]

RunnerInit ==
  /\ runs = [r \in RunIds |-> NoRow]
  /\ isProcessing = [w \in Workers |-> FALSE]
  /\ activeRuns = [w \in Workers |-> 0]
  /\ claimPc = [w \in Workers |-> "idle"]
  /\ claimRun = [w \in Workers |-> NoRun]
  /\ drivers = [d \in Workers \X RunIds |-> "none"]
  /\ dispatched = [r \in RunIds |-> {}]
  /\ execs = [d \in Workers \X RunIds |-> NoExec]
  /\ creates = [r \in RunIds |-> "none"]
  /\ storages = [datasets |-> {}, keyValueStores |-> {}, requestQueues |-> {}, inputs |-> {}]
  /\ published = {}
  /\ runResp = NoResp

WorkerFrame == UNCHANGED <<isProcessing, activeRuns, claimPc, claimRun, drivers, dispatched, execs>>

CreateFrame == UNCHANGED <<creates, storages, published>>

\* ------------------------------------------- POST /acts/:actorId/runs
\* the actor row is found and the four ids are drawn
CreateRunStart(r) ==
  /\ creates[r] = "none"
  /\ \A s \in RunIds : s < r => creates[s] = "done"
  /\ creates' = [creates EXCEPT ![r] = "datasets"]
  /\ UNCHANGED <<runs, storages, published, runResp>>
  /\ WorkerFrame
  /\ UNCHANGED <<queueVars, datasetVars, logVars>>

\* INSERT INTO datasets (id) VALUES ($1)
CreateRunDataset(r) ==
  /\ creates[r] = "datasets"
  /\ storages' = [storages EXCEPT !.datasets = @ \cup {NanoId(r, 1)}]
  /\ creates' = [creates EXCEPT ![r] = "kvs"]
  /\ UNCHANGED <<runs, published, runResp>>
  /\ WorkerFrame
  /\ UNCHANGED <<queueVars, datasetVars, logVars>>

\* INSERT INTO key_value_stores (id) VALUES ($1)
CreateRunKvStore(r) ==
  /\ creates[r] = "kvs"
  /\ storages' = [storages EXCEPT !.keyValueStores = @ \cup {NanoId(r, 2)}]
  /\ creates' = [creates EXCEPT ![r] = "rqs"]
  /\ UNCHANGED <<runs, published, runResp>>
  /\ WorkerFrame
  /\ UNCHANGED <<queueVars, datasetVars, logVars>>

\* INSERT INTO request_queues (id) VALUES ($1)
CreateRunQueue(r) ==
  /\ creates[r] = "rqs"
  /\ storages' = [storages EXCEPT !.requestQueues = @ \cup {NanoId(r, 3)}]
  /\ creates' = [creates EXCEPT ![r] = "input"]
  /\ UNCHANGED <<runs, published, runResp>>
  /\ WorkerFrame
  /\ UNCHANGED <<queueVars, datasetVars, logVars>>

\* putKVRecord(kvStoreId, 'INPUT', ...)
CreateRunInput(r) ==
  /\ creates[r] = "input"
  /\ storages' = [storages EXCEPT !.inputs = @ \cup {NanoId(r, 2)}]
  /\ creates' = [creates EXCEPT ![r] = "run"]
  /\ UNCHANGED <<runs, published, runResp>>
  /\ WorkerFrame
  /\ UNCHANGED <<queueVars, datasetVars, logVars>>

\* the run row is inserted in status READY, with the three storage ids
CreateRun(r) ==
  /\ creates[r] = "run"
  /\ runs[r].status = "NONE"
  /\ runs' = [runs EXCEPT ![r] =
       [status |-> "READY", finishedAt |-> FALSE,
        defaultDatasetId |-> NanoId(r, 1), defaultKeyValueStoreId |-> NanoId(r, 2),
        defaultRequestQueueId |-> NanoId(r, 3)]]
  /\ creates' = [creates EXCEPT ![r] = "publish"]
  /\ UNCHANGED <<storages, published, runResp>>
  /\ WorkerFrame
  /\ UNCHANGED <<queueVars, datasetVars, logVars>>

\* a handler that publishes before its INSERT INTO runs
PublishEarly(r) == creates[r] \in {"run", "publish"}

\* the handler stands at redis.publish('run:new', runId)
PublishDue(r) == creates[r] = "publish"

\* redis.publish('run:new', runId), then the 201 response
CreateRunPublish(r) ==
  /\ PublishDue(r)
  /\ published' = published \cup {r}
  /\ creates' = [creates EXCEPT ![r] = "done"]
  /\ UNCHANGED <<runs, storages, runResp>>
  /\ WorkerFrame
  /\ UNCHANGED <<queueVars, datasetVars, logVars>>

\* ------------------------------------------------------------ job queue
\* a guard that lets a runner with no claim step in flight take any number
\* of runs
ClaimRefusedBusyOnly(w) == isProcessing[w]

\* if (isProcessing || activeRuns >= config.maxConcurrentRuns) return
ClaimRefused(w) == isProcessing[w] \/ activeRuns[w] >= maxConcurrentRuns

\* processNextRun, entered from the poll loop or from a run:new message:
\* the early return
ProcessNextRunSkip(w) ==
  /\ ClaimRefused(w)
  /\ UNCHANGED vars

\* processNextRun: isProcessing = true, then the SELECT is sent
ProcessNextRunEnter(w) ==
  /\ claimPc[w] = "idle"
  /\ ~ClaimRefused(w)
  /\ isProcessing' = [isProcessing EXCEPT ![w] = TRUE]
  /\ claimPc' = [claimPc EXCEPT ![w] = "select"]
  /\ UNCHANGED <<runs, activeRuns, claimRun, drivers, dispatched, execs, runResp>>
  /\ CreateFrame
  /\ UNCHANGED <<queueVars, datasetVars, logVars>>

\* a finally block that leaves the flag set
ClaimFinallySkipped(w) == isProcessing

\* finally { isProcessing = false }
ClaimFinally(w) == [isProcessing EXCEPT ![w] = FALSE]

\* processNextRun: the SELECT returns; with no row the finally block runs
ProcessNextRunSelect(w) ==
  /\ claimPc[w] = "select"
  /\ IF OldestReady = NoRun
       THEN /\ claimPc' = [claimPc EXCEPT ![w] = "idle"]
            /\ isProcessing' = ClaimFinally(w)
            /\ UNCHANGED claimRun
       ELSE /\ claimPc' = [claimPc EXCEPT ![w] = "update"]
            /\ claimRun' = [claimRun EXCEPT ![w] = OldestReady]
            /\ UNCHANGED isProcessing
  /\ UNCHANGED <<runs, activeRuns, drivers, dispatched, execs, runResp>>
  /\ CreateFrame
  /\ UNCHANGED <<queueVars, datasetVars, logVars>>

\* The WHERE clause of the claiming UPDATE: the row it may change
ClaimUpdateApplies(r) == runs[r].status # "NONE"

\* processNextRun: UPDATE runs SET status = 'RUNNING' WHERE id = $1, then
\* activeRuns++, processRun(run) is started, and the finally block runs
ProcessNextRunUpdate(w) ==
  /\ claimPc[w] = "update"
  /\ LET r == claimRun[w] IN
       /\ runs' = IF ClaimUpdateApplies(r)
                    THEN [runs EXCEPT ![r].status = "RUNNING"]
                    ELSE runs
       /\ activeRuns' = [activeRuns EXCEPT ![w] = @ + 1]
       /\ drivers' = [drivers EXCEPT ![<<w, r>>] = "exec"]
       /\ execs' = [execs EXCEPT ![<<w, r>>] = NoExec]
       /\ dispatched' = [dispatched EXCEPT ![r] = @ \cup {w}]
  /\ claimPc' = [claimPc EXCEPT ![w] = "idle"]
  /\ claimRun' = [claimRun EXCEPT ![w] = NoRun]
  /\ isProcessing' = ClaimFinally(w)
  /\ UNCHANGED runResp
  /\ CreateFrame
  /\ UNCHANGED <<queueVars, datasetVars, logVars>>

DriverFrame == UNCHANGED <<isProcessing, activeRuns, claimPc, claimRun, dispatched, runResp>>

\* executeRun: container.wait() wins the race, exitCode = result.StatusCode
ContainerExits(w, r, code) ==
  /\ drivers[<<w, r>>] = "exec"
  /\ execs' = [execs EXCEPT ![<<w, r>>].exitCode = code]
  /\ drivers' = [drivers EXCEPT ![<<w, r>>] = "exited"]
  /\ UNCHANGED runs
  /\ DriverFrame
  /\ CreateFrame
  /\ UNCHANGED <<queueVars, datasetVars, logVars>>

\* executeRun: the timer set to timeoutSecs fires while the container runs:
\* timedOut = true, the race rejects, the log line is pushed and
\* container.stop({ t: 10 }) is sent
TimeoutFires(w, r) ==
  /\ drivers[<<w, r>>] = "exec"
  /\ execs' = [execs EXCEPT ![<<w, r>>].timedOut = TRUE]
  /\ drivers' = [drivers EXCEPT ![<<w, r>>] = "stopping"]
  /\ UNCHANGED runs
  /\ DriverFrame
  /\ CreateFrame
  /\ UNCHANGED <<queueVars, datasetVars, logVars>>

\* a stop that leaves the exit code of a killed process (SIGKILL)
StopExitCodeKilled == 128 + 9

\* exitCode = 143 after the stop (SIGTERM)
StopExitCode == 143

\* executeRun: container.stop() returns, exitCode = 143
ContainerStopped(w, r) ==
  /\ drivers[<<w, r>>] = "stopping"
  /\ execs' = [execs EXCEPT ![<<w, r>>].exitCode = StopExitCode]
  /\ drivers' = [drivers EXCEPT ![<<w, r>>] = "exited"]
  /\ UNCHANGED runs
  /\ DriverFrame
  /\ CreateFrame
  /\ UNCHANGED <<queueVars, datasetVars, logVars>>

\* executeRun rejects (the image cannot be pulled, the container cannot be
\* created or started): processRun enters its catch block
ExecuteRunThrows(w, r) ==
  /\ drivers[<<w, r>>] = "exec"
  /\ drivers' = [drivers EXCEPT ![<<w, r>>] = "catch"]
  /\ UNCHANGED <<runs, execs>>
  /\ DriverFrame
  /\ CreateFrame
  /\ UNCHANGED <<queueVars, datasetVars, logVars>>

\* processRun: UPDATE runs SET status = $1, finished_at = $2 WHERE id = $3
\* with the status the exit code maps to
ProcessRunFinish(w, r) ==
  /\ drivers[<<w, r>>] = "exited"
  /\ runs' = [runs EXCEPT ![r].status = FinalStatus(execs[<<w, r>>].exitCode),
                          ![r].finishedAt = TRUE]
  /\ drivers' = [drivers EXCEPT ![<<w, r>>] = "hooks"]
  /\ UNCHANGED execs
  /\ DriverFrame
  /\ CreateFrame
  /\ UNCHANGED <<queueVars, datasetVars, logVars>>

\* processRun: the triggerWebhooks awaited in the try block rejects (its
\* SELECT of the webhooks or of the run fails; a failing delivery is caught
\* inside triggerWebhooks): processRun enters its catch block, the final
\* status being written already
WebhooksThrow(w, r) ==
  /\ drivers[<<w, r>>] = "hooks"
  /\ drivers' = [drivers EXCEPT ![<<w, r>>] = "catchLate"]
  /\ UNCHANGED <<runs, execs>>
  /\ DriverFrame
  /\ CreateFrame
  /\ UNCHANGED <<queueVars, datasetVars, logVars>>

\* processRun, catch block: UPDATE runs SET status = 'FAILED',
\* status_message = $1, finished_at = NOW() WHERE id = $2, then
\* triggerWebhooks(runId, 'FAILED') is awaited
ProcessRunCatch(w, r) ==
  /\ drivers[<<w, r>>] \in {"catch", "catchLate"}
  /\ runs' = [runs EXCEPT ![r].status = "FAILED", ![r].finishedAt = TRUE]
  /\ drivers' = [drivers EXCEPT ![<<w, r>>] = "catchHooks"]
  /\ UNCHANGED execs
  /\ DriverFrame
  /\ CreateFrame
  /\ UNCHANGED <<queueVars, datasetVars, logVars>>

\* processRun settles, its last triggerWebhooks having returned or, in the
\* catch block, thrown: .finally(() => activeRuns--)
ProcessRunSettled(w, r) ==
  /\ drivers[<<w, r>>] \in {"hooks", "catchHooks"}
  /\ drivers' = [drivers EXCEPT ![<<w, r>>] = "none"]
  /\ execs' = [execs EXCEPT ![<<w, r>>] = NoExec]
  /\ activeRuns' = [activeRuns EXCEPT ![w] = @ - 1]
  /\ UNCHANGED <<runs, isProcessing, claimPc, claimRun, dispatched, runResp>>
  /\ CreateFrame
  /\ UNCHANGED <<queueVars, datasetVars, logVars>>

\* the runner process dies and is started again: what it held in memory
\* (isProcessing, activeRuns, its processRun tasks) is gone, the runs table
\* is as the process left it
WorkerCrash(w) ==
  /\ \E r \in RunIds : drivers[<<w, r>>] # "none"
  /\ isProcessing' = [isProcessing EXCEPT ![w] = FALSE]
  /\ activeRuns' = [activeRuns EXCEPT ![w] = 0]
  /\ claimPc' = [claimPc EXCEPT ![w] = "idle"]
  /\ claimRun' = [claimRun EXCEPT ![w] = NoRun]
  /\ drivers' = [d \in Workers \X RunIds |-> IF d[1] = w THEN "none" ELSE drivers[d]]
  /\ execs' = [d \in Workers \X RunIds |-> IF d[1] = w THEN NoExec ELSE execs[d]]
  /\ UNCHANGED <<runs, dispatched, runResp>>
  /\ CreateFrame
  /\ UNCHANGED <<queueVars, datasetVars, logVars>>

\* ------------------------------------------------------- /actor-runs routes
\* the status values PUT /actor-runs/:runId is called with
Statuses == {"READY", "RUNNING"} \cup Terminal

\* the response of the next call
Resp(op, r, code) == [op |-> op, run |-> r, code |-> code, call |-> runResp.call + 1]

\* PUT /actor-runs/:runId: UPDATE runs SET status = $1 [, finished_at = NOW()]
\* WHERE id = $2; finished_at is written only for a terminal status
UpdateStatus(r, s) ==
  /\ runs[r].status # "NONE"
  /\ runs' = [runs EXCEPT ![r].status = s,
                          ![r].finishedAt = IF s \in Terminal THEN TRUE ELSE @]
  /\ runResp' = Resp("update", r, 200)
  /\ WorkerFrame
  /\ CreateFrame
  /\ UNCHANGED <<queueVars, datasetVars, logVars>>

\* an abort whose UPDATE has no status condition
AbortAppliesAlways(r) == TRUE

\* the WHERE clause of the abort: id = $1 AND status = 'RUNNING'
AbortApplies(r) == runs[r].status = "RUNNING"

\* POST /actor-runs/:runId/abort: UPDATE runs SET status = 'ABORTED',
\* finished_at = NOW() WHERE id = $1 AND status = 'RUNNING' RETURNING *,
\* 404 when no row was changed
AbortRun(r) ==
  /\ runs[r].status # "NONE"
  /\ IF AbortApplies(r)
       THEN /\ runs' = [runs EXCEPT ![r].status = "ABORTED", ![r].finishedAt = TRUE]
            /\ runResp' = Resp("abort", r, 200)
       ELSE /\ UNCHANGED runs
            /\ runResp' = Resp("abort", r, 404)
  /\ WorkerFrame
  /\ CreateFrame
  /\ UNCHANGED <<queueVars, datasetVars, logVars>>

\* the WHERE clause of the resurrect: status IN ('FAILED', 'ABORTED', 'TIMED-OUT')
ResurrectApplies(r) == runs[r].status \in {"FAILED", "ABORTED", "TIMED-OUT"}

\* a resurrect that draws new storages for the run
ResurrectedAnew(row, r) ==
  [row EXCEPT !.status = "RUNNING", !.finishedAt = FALSE, !.defaultDatasetId = NanoId(r, 4)]

\* SET status = 'RUNNING', finished_at = NULL
Resurrected(row, r) == [row EXCEPT !.status = "RUNNING", !.finishedAt = FALSE]

\* POST /actor-runs/:runId/resurrect: UPDATE runs SET status = 'RUNNING',
\* finished_at = NULL WHERE id = $1 AND status IN ('FAILED', 'ABORTED',
\* 'TIMED-OUT') RETURNING *, 404 when no row was changed
ResurrectRun(r) ==
  /\ runs[r].status # "NONE"
  /\ IF ResurrectApplies(r)
       THEN /\ runs' = [runs EXCEPT ![r] = Resurrected(@, r)]
            /\ runResp' = Resp("resurrect", r, 200)
       ELSE /\ UNCHANGED runs
            /\ runResp' = Resp("resurrect", r, 404)
  /\ WorkerFrame
  /\ CreateFrame
  /\ UNCHANGED <<queueVars, datasetVars, logVars>>

\* ============================================================ request queue
Restrict(f, S) == [x \in S |-> f[x]]

Min(a, b) == IF a <= b THEN a ELSE b

\* a row of the requests table as INSERT leaves it (the column defaults)
NewRow(k, n) ==
  [uniqueKey |-> k, handledAt |-> FALSE, orderNo |-> n, retryCount |-> 0,
   lockedUntil |-> NullTime, lockedBy |-> NoClient]

\* a request_queues row as INSERT leaves it (the column defaults)
NewQueue == [total |-> 0, handled |-> 0, pending |-> 0, hadMultipleClients |-> FALSE]

\* nanoid(): an id no other call produces; `call` numbers the HTTP call and
\* `i` the request within its body
NewId(call, i) == call * 10 + i

\* SELECT * FROM requests WHERE queue_id = $1 AND unique_key = $2
RowsWithKey(k) == {id \in DOMAIN requests : requests[id].uniqueKey = k}

\* a dedup lookup that never finds a row
FindExistingNever(k) == NoReq

\* existing.rows[0] of the dedup lookup, NoReq when there is no row
FindExisting(k) ==
  IF RowsWithKey(k) = {} THEN NoReq
  ELSE CHOOSE id \in RowsWithKey(k) : \A o \in RowsWithKey(k) : id <= o

\* a requests table without the UNIQUE(queue_id, unique_key) constraint
UniqueViolationOff(k) == FALSE

\* UNIQUE(queue_id, unique_key): the INSERT of a second row with the key fails
UniqueViolation(k) == RowsWithKey(k) # {}

\* a counts statement that forgets pending_request_count
AddCountsTotalOnly(q) == [q EXCEPT !.total = @ + 1]

\* AddRequest: total_request_count + 1, pending_request_count + 1
AddCounts(q) == [q EXCEPT !.total = @ + 1, !.pending = @ + 1]

\* AddRequestsBatch: both counts + newCount
BatchCounts(q, n) == [q EXCEPT !.total = @ + n, !.pending = @ + n]

\* UpdateRequest: handled_request_count + 1, pending_request_count - 1
HandledCounts(q) == [q EXCEPT !.handled = @ + 1, !.pending = @ - 1]

\* ------------------------------------------------------------ Redis locks
\* the value of the lock key of request r, NoClient when it is missing or expired
StoreHolder(r) ==
  IF r \in DOMAIN redisLock /\ redisLock[r].exp > now
    THEN redisLock[r].holder ELSE NoClient

\* redis.set(lockKey, clientKey, 'EX', lockSecs, 'NX'): the keys afterwards
SetNX(locks, r, c, secs) ==
  IF r \in DOMAIN locks /\ locks[r].exp > now
    THEN locks
    ELSE (r :> [holder |-> c, exp |-> now + secs]) @@ locks

\* a lockRequest that ignores the answer of SET NX
LockRequestOkAlways(r) == TRUE

\* lockRequest's result: whether SET NX answered OK
LockRequestOk(r) == StoreHolder(r) = NoClient

\* a release that leaves the key in place
DelNothing(locks, r) == locks

\* redis.del(lockKey)
Del(locks, r) == Restrict(locks, DOMAIN locks \ {r})

\* Redis drops a key when its TTL has run out
Unexpired(locks, t) == Restrict(locks, {r \in DOMAIN locks : locks[r].exp > t})

\* ------------------------------------------------------------- head query
\* a head query that takes no row that was ever locked
SelectableNeverLocked(id) ==
  ~requests[id].handledAt /\ requests[id].lockedUntil = NullTime

\* WHERE handled_at IS NULL AND (locked_until IS NULL OR locked_until < NOW())
Selectable(id) ==
  /\ ~requests[id].handledAt
  /\ (requests[id].lockedUntil = NullTime \/ requests[id].lockedUntil < now)

RECURSIVE ByOrderNo(_)
\* ORDER BY order_no ASC
ByOrderNo(S) ==
  IF S = {} THEN <<>>
  ELSE LET m == CHOOSE id \in S : \A o \in S : requests[id].orderNo <= requests[o].orderNo
       IN <<m>> \o ByOrderNo(S \ {m})

\* the head query of GetHead and AcquireHead, LIMIT included
HeadRows(limit) ==
  LET all == ByOrderNo({id \in DOMAIN requests : Selectable(id)})
  IN SubSeq(all, 1, Min(limit, Len(all)))

\* isLocked of UpdateRequest: locked_until && new Date(locked_until) > new Date()
RowLocked(row) == row.lockedUntil # NullTime /\ row.lockedUntil > now

\* UpdateRequest's ownership check: the 409 condition
LockedByOther(row, c) == RowLocked(row) /\ row.lockedBy # NoClient /\ c # row.lockedBy

\* ---------------------------------------------------------------- handlers
IdleH ==
  [op |-> "idle", pc |-> "idle", call |-> 0, client |-> NoClient, req |-> NoReq,
   key |-> "-", forefront |-> FALSE, lockSecs |-> 0, limit |-> 0,
   patch |-> [handledAt |-> "absent", retry |-> FALSE],
   snapHandled |-> FALSE, snapLockedBy |-> NoClient, snapHMC |-> FALSE,
   cand |-> <<>>, idx |-> 0, locked |-> <<>>, items |-> <<>>,
   status |-> 0, rid |-> NoReq, present |-> FALSE, wasHandled |-> FALSE]

\* the bodies UpdateRequest is called with: mark handled ({handledAt}) and
\* reclaim ({retryCount})
Patches ==
  {[handledAt |-> "value", retry |-> FALSE],
   [handledAt |-> "absent", retry |-> TRUE]}

\* the bodies AddRequestsBatch is called with: 1..MaxBatch requests
BatchBodies == UNION {[1..n -> Keys] : n \in 1..MaxBatch}

Set(h, f) == hs' = [hs EXCEPT ![h] = f]

QueueFrame == UNCHANGED <<requests, queue, orderSeq, redisLock, redisHead, now, calls, handledIncs, lockedEver>>

\* a handler slot is free before its first call and after a response
Free(h) == hs[h].pc \in {"idle", "done"}

\* a call is served by the first free slot
Takes(h) == Free(h) /\ \A g \in Handlers : g < h => ~Free(g)

\* the response is sent: of the handler's locals only what the response and
\* the request line carry stays visible
Respond(f, code) ==
  [IdleH EXCEPT !.op = f.op, !.pc = "done", !.status = code, !.client = f.client,
                !.req = f.req, !.key = f.key, !.limit = f.limit, !.patch = f.patch,
                !.locked = f.locked, !.items = f.items]

\* ------------------------------------------- POST /request-queues/:id/requests
StartAdd(h, k, ff) ==
  /\ Takes(h)
  /\ calls' = calls + 1
  /\ Set(h, [IdleH EXCEPT !.op = "add", !.pc = "check", !.call = calls + 1,
                          !.key = k, !.forefront = ff])
  /\ UNCHANGED <<requests, queue, orderSeq, redisLock, redisHead, now, handledIncs, lockedEver>>
  /\ UNCHANGED <<runnerVars, datasetVars, logVars>>

\* the dedup lookup; an existing row is answered at once
AddCheck(h) ==
  /\ hs[h].op = "add" /\ hs[h].pc = "check"
  /\ LET e == FindExisting(hs[h].key) IN
       IF e # NoReq
         THEN Set(h, [Respond(hs[h], 200) EXCEPT !.rid = e, !.present = TRUE,
                                              !.wasHandled = requests[e].handledAt])
         ELSE Set(h, [hs[h] EXCEPT !.pc = "insert", !.req = NewId(hs[h].call, 1)])
  /\ QueueFrame
  /\ UNCHANGED <<runnerVars, datasetVars, logVars>>

\* INSERT INTO requests ... RETURNING *; a unique violation is not caught
AddInsert(h) ==
  /\ hs[h].op = "add" /\ hs[h].pc = "insert"
  /\ orderSeq' = orderSeq + 1
  /\ IF UniqueViolation(hs[h].key)
       THEN /\ Set(h, Respond(hs[h], 500))
            /\ UNCHANGED requests
       ELSE /\ requests' = (hs[h].req :> NewRow(hs[h].key, orderSeq + 1)) @@ requests
            /\ Set(h, [hs[h] EXCEPT !.pc = "count"])
  /\ UNCHANGED <<queue, redisLock, redisHead, now, calls, handledIncs, lockedEver>>
  /\ UNCHANGED <<runnerVars, datasetVars, logVars>>

\* UPDATE request_queues SET total_request_count = total_request_count + 1, ...
AddCount(h) ==
  /\ hs[h].op = "add" /\ hs[h].pc = "count"
  /\ queue' = AddCounts(queue)
  /\ Set(h, [hs[h] EXCEPT !.pc = "head"])
  /\ UNCHANGED <<requests, orderSeq, redisLock, redisHead, now, calls, handledIncs, lockedEver>>
  /\ UNCHANGED <<runnerVars, datasetVars, logVars>>

\* the score addToQueueHead is called with: order_no * orderModifier
HeadScore(orderNo, ff) == IF ff THEN 0 - orderNo ELSE orderNo

\* addToQueueHead (ZADD), then the 201 response
AddHead(h) ==
  /\ hs[h].op = "add" /\ hs[h].pc = "head"
  /\ redisHead' = (hs[h].req :> HeadScore(requests[hs[h].req].orderNo, hs[h].forefront))
                    @@ redisHead
  /\ Set(h, [Respond(hs[h], 201) EXCEPT !.rid = hs[h].req])
  /\ UNCHANGED <<requests, queue, orderSeq, redisLock, now, calls, handledIncs, lockedEver>>
  /\ UNCHANGED <<runnerVars, datasetVars, logVars>>

\* ------------------------------------- POST /request-queues/:id/requests/batch
\* one element of the body, handled by its own async function inside Promise.all
NewItem(k) == [key |-> k, pc |-> "check", rid |-> NoReq, present |-> FALSE,
               wasHandled |-> FALSE]

StartBatch(h, body) ==
  /\ Takes(h)
  /\ calls' = calls + 1
  /\ Set(h, [IdleH EXCEPT !.op = "batch", !.pc = "items", !.call = calls + 1,
                          !.items = [i \in DOMAIN body |-> NewItem(body[i])]])
  /\ UNCHANGED <<requests, queue, orderSeq, redisLock, redisHead, now, handledIncs, lockedEver>>
  /\ UNCHANGED <<runnerVars, datasetVars, logVars>>

\* an element's dedup lookup
BatchItemCheck(h, i) ==
  /\ hs[h].op = "batch" /\ hs[h].pc = "items"
  /\ i \in DOMAIN hs[h].items /\ hs[h].items[i].pc = "check"
  /\ LET e == FindExisting(hs[h].items[i].key) IN
       IF e # NoReq
         THEN Set(h, [hs[h] EXCEPT !.items[i] =
                        [@ EXCEPT !.pc = "processed", !.rid = e, !.present = TRUE,
                                  !.wasHandled = requests[e].handledAt]])
         ELSE Set(h, [hs[h] EXCEPT !.items[i] =
                        [@ EXCEPT !.pc = "insert", !.rid = NewId(hs[h].call, i)]])
  /\ QueueFrame
  /\ UNCHANGED <<runnerVars, datasetVars, logVars>>

\* an element's INSERT; a unique violation is caught and the element reported
\* unprocessed
BatchItemInsert(h, i) ==
  /\ hs[h].op = "batch" /\ hs[h].pc = "items"
  /\ i \in DOMAIN hs[h].items /\ hs[h].items[i].pc = "insert"
  /\ orderSeq' = orderSeq + 1
  /\ IF UniqueViolation(hs[h].items[i].key)
       THEN /\ Set(h, [hs[h] EXCEPT !.items[i] = [@ EXCEPT !.pc = "unprocessed",
                                                            !.rid = NoReq]])
            /\ UNCHANGED requests
       ELSE /\ requests' = (hs[h].items[i].rid :> NewRow(hs[h].items[i].key, orderSeq + 1))
                             @@ requests
            /\ Set(h, [hs[h] EXCEPT !.items[i] = [@ EXCEPT !.pc = "processed"]])
  /\ UNCHANGED <<queue, redisLock, redisHead, now, calls, handledIncs, lockedEver>>
  /\ UNCHANGED <<runnerVars, datasetVars, logVars>>

\* a newCount that also counts the elements found already present
NewCountAll(items) ==
  Cardinality({i \in DOMAIN items : items[i].pc = "processed"})

\* processedRequests.filter(r => !r.wasAlreadyPresent).length
NewCount(items) ==
  Cardinality({i \in DOMAIN items : items[i].pc = "processed" /\ ~items[i].present})

\* Promise.all has resolved: the counts are updated if anything is new, then
\* the response
BatchCount(h) ==
  /\ hs[h].op = "batch" /\ hs[h].pc = "items"
  /\ \A i \in DOMAIN hs[h].items : hs[h].items[i].pc \in {"processed", "unprocessed"}
  /\ queue' = IF NewCount(hs[h].items) > 0
                THEN BatchCounts(queue, NewCount(hs[h].items))
                ELSE queue
  /\ Set(h, Respond(hs[h], 200))
  /\ UNCHANGED <<requests, orderSeq, redisLock, redisHead, now, calls, handledIncs, lockedEver>>
  /\ UNCHANGED <<runnerVars, datasetVars, logVars>>

\* ------------------------------- PUT /request-queues/:id/requests/:requestId
StartUpdate(h, r, p, c) ==
  /\ Takes(h)
  /\ r \in DOMAIN requests
  /\ calls' = calls + 1
  /\ Set(h, [IdleH EXCEPT !.op = "update", !.pc = "read", !.call = calls + 1,
                          !.req = r, !.patch = p, !.client = c])
  /\ UNCHANGED <<requests, queue, orderSeq, redisLock, redisHead, now, handledIncs, lockedEver>>
  /\ UNCHANGED <<runnerVars, datasetVars, logVars>>

\* the row is read and the lock recorded in it is checked against clientKey
UpdateRead(h) ==
  /\ hs[h].op = "update" /\ hs[h].pc = "read"
  /\ LET existing == requests[hs[h].req] IN
       IF LockedByOther(existing, hs[h].client)
         THEN Set(h, Respond(hs[h], 409))
         ELSE Set(h, [hs[h] EXCEPT !.pc = "write",
                                   !.snapHandled = existing.handledAt,
                                   !.snapLockedBy = existing.lockedBy])
  /\ QueueFrame
  /\ UNCHANGED <<runnerVars, datasetVars, logVars>>

\* the row after UPDATE requests SET <the body's fields>, locked_until = NULL,
\* locked_by = NULL
Patched(row, p) ==
  [row EXCEPT !.handledAt = IF p.handledAt = "value" THEN TRUE ELSE @,
              !.retryCount = IF p.retry THEN 1 ELSE @,
              !.lockedUntil = NullTime,
              !.lockedBy = NoClient]

UpdateWrite(h) ==
  /\ hs[h].op = "update" /\ hs[h].pc = "write"
  /\ requests' = [requests EXCEPT ![hs[h].req] = Patched(@, hs[h].patch)]
  /\ Set(h, [hs[h] EXCEPT !.pc = "relget"])
  /\ UNCHANGED <<queue, orderSeq, redisLock, redisHead, now, calls, handledIncs, lockedEver>>
  /\ UNCHANGED <<runnerVars, datasetVars, logVars>>

\* !wasHandled && willBeHandled
CountsDue(h) == ~hs[h].snapHandled /\ hs[h].patch.handledAt # "absent"

AfterRelease(h) ==
  IF CountsDue(h) THEN [hs[h] EXCEPT !.pc = "count"]
  ELSE [Respond(hs[h], 200) EXCEPT !.rid = hs[h].req, !.present = TRUE,
                                   !.wasHandled = hs[h].snapHandled]

\* releaseLock(queue, id, existing.locked_by || ''): GET, and the comparison
UpdateReleaseGet(h) ==
  /\ hs[h].op = "update" /\ hs[h].pc = "relget"
  /\ IF StoreHolder(hs[h].req) # NoClient /\ StoreHolder(hs[h].req) = hs[h].snapLockedBy
       THEN Set(h, [hs[h] EXCEPT !.pc = "reldel"])
       ELSE Set(h, AfterRelease(h))
  /\ QueueFrame
  /\ UNCHANGED <<runnerVars, datasetVars, logVars>>

\* releaseLock: DEL
UpdateReleaseDel(h) ==
  /\ hs[h].op = "update" /\ hs[h].pc = "reldel"
  /\ redisLock' = Del(redisLock, hs[h].req)
  /\ Set(h, AfterRelease(h))
  /\ UNCHANGED <<requests, queue, orderSeq, redisHead, now, calls, handledIncs, lockedEver>>
  /\ UNCHANGED <<runnerVars, datasetVars, logVars>>

\* UPDATE request_queues SET handled_request_count = handled_request_count + 1, ...
UpdateCount(h) ==
  /\ hs[h].op = "update" /\ hs[h].pc = "count"
  /\ queue' = HandledCounts(queue)
  /\ handledIncs' = (hs[h].req :> (IF hs[h].req \in DOMAIN handledIncs
                                      THEN handledIncs[hs[h].req] + 1 ELSE 1))
                      @@ handledIncs
  /\ Set(h, [hs[h] EXCEPT !.pc = "zrem"])
  /\ UNCHANGED <<requests, orderSeq, redisLock, redisHead, now, calls, lockedEver>>
  /\ UNCHANGED <<runnerVars, datasetVars, logVars>>

\* removeFromQueueHead (ZREM), then the 200 response
UpdateZrem(h) ==
  /\ hs[h].op = "update" /\ hs[h].pc = "zrem"
  /\ redisHead' = Restrict(redisHead, DOMAIN redisHead \ {hs[h].req})
  /\ Set(h, [Respond(hs[h], 200) EXCEPT !.rid = hs[h].req, !.present = TRUE,
                                          !.wasHandled = hs[h].snapHandled])
  /\ UNCHANGED <<requests, queue, orderSeq, redisLock, now, calls, handledIncs, lockedEver>>
  /\ UNCHANGED <<runnerVars, datasetVars, logVars>>

\* --------------------------------------- GET /request-queues/:id/head
StartGetHead(h, limit) ==
  /\ Takes(h)
  /\ calls' = calls + 1
  /\ Set(h, [IdleH EXCEPT !.op = "head", !.pc = "select", !.call = calls + 1,
                          !.limit = limit])
  /\ UNCHANGED <<requests, queue, orderSeq, redisLock, redisHead, now, handledIncs, lockedEver>>
  /\ UNCHANGED <<runnerVars, datasetVars, logVars>>

\* the pending, unlocked requests are read and returned as the items of the
\* response (kept in the field locked)
GetHeadSelect(h) ==
  /\ hs[h].op = "head" /\ hs[h].pc = "select"
  /\ Set(h, [Respond(hs[h], 200) EXCEPT !.locked = HeadRows(hs[h].limit)])
  /\ QueueFrame
  /\ UNCHANGED <<runnerVars, datasetVars, logVars>>

\* ---------------------------------- POST /request-queues/:id/head/lock
StartAcquire(h, c, limit, secs) ==
  /\ Takes(h)
  /\ calls' = calls + 1
  /\ Set(h, [IdleH EXCEPT !.op = "acquire", !.pc = "select", !.call = calls + 1,
                          !.client = c, !.limit = limit, !.lockSecs = secs])
  /\ UNCHANGED <<requests, queue, orderSeq, redisLock, redisHead, now, handledIncs, lockedEver>>
  /\ UNCHANGED <<runnerVars, datasetVars, logVars>>

\* where the locking loop stands after request number idx: the next request, or
\* the two COUNT queries
AfterRequest(f) ==
  IF f.idx < Len(f.cand) THEN [f EXCEPT !.pc = "lock", !.idx = @ + 1]
  ELSE [f EXCEPT !.pc = "counts"]

\* the queue row (its had_multiple_clients is what the handler goes by from
\* here on) and the pending, unlocked requests are read
AcquireSelect(h) ==
  /\ hs[h].op = "acquire" /\ hs[h].pc = "select"
  /\ Set(h, AfterRequest([hs[h] EXCEPT !.cand = HeadRows(hs[h].limit),
                                       !.snapHMC = queue.hadMultipleClients]))
  /\ QueueFrame
  /\ UNCHANGED <<runnerVars, datasetVars, logVars>>

\* lockRequest on the request the loop stands at
AcquireLock(h) ==
  /\ hs[h].op = "acquire" /\ hs[h].pc = "lock"
  /\ LET r == hs[h].cand[hs[h].idx] IN
       /\ redisLock' = SetNX(redisLock, r, hs[h].client, hs[h].lockSecs)
       /\ IF LockRequestOk(r)
            THEN Set(h, [hs[h] EXCEPT !.pc = "mirror"])
            ELSE Set(h, AfterRequest(hs[h]))
  /\ UNCHANGED <<requests, queue, orderSeq, redisHead, now, calls, handledIncs, lockedEver>>
  /\ UNCHANGED <<runnerVars, datasetVars, logVars>>

\* UPDATE requests SET locked_until = NOW() + lockSecs, locked_by = $1, and
\* the request joins lockedRequests
AcquireMirror(h) ==
  /\ hs[h].op = "acquire" /\ hs[h].pc = "mirror"
  /\ LET r == hs[h].cand[hs[h].idx] IN
       /\ requests' = [requests EXCEPT ![r].lockedUntil = now + hs[h].lockSecs,
                                       ![r].lockedBy = hs[h].client]
       /\ Set(h, AfterRequest([hs[h] EXCEPT !.locked = Append(@, r)]))
       /\ lockedEver' = lockedEver \cup {<<hs[h].client, r>>}
  /\ UNCHANGED <<queue, orderSeq, redisLock, redisHead, now, calls, handledIncs>>
  /\ UNCHANGED <<runnerVars, datasetVars, logVars>>

\* COUNT(DISTINCT locked_by) ... WHERE locked_by IS NOT NULL, > 1
SeesMultipleClients ==
  Cardinality({requests[id].lockedBy : id \in DOMAIN requests} \ {NoClient}) > 1

\* the two COUNT queries; had_multiple_clients is written only if it has to be
AcquireCounts(h) ==
  /\ hs[h].op = "acquire" /\ hs[h].pc = "counts"
  /\ IF SeesMultipleClients /\ ~hs[h].snapHMC
       THEN Set(h, [hs[h] EXCEPT !.pc = "flag"])
       ELSE Set(h, Respond(hs[h], 200))
  /\ QueueFrame
  /\ UNCHANGED <<runnerVars, datasetVars, logVars>>

\* a flag statement that flips had_multiple_clients
FlagFlipped(q) == [q EXCEPT !.hadMultipleClients = ~@]

\* SET had_multiple_clients = true
FlagSet(q) == [q EXCEPT !.hadMultipleClients = TRUE]

\* UPDATE request_queues SET had_multiple_clients = true
AcquireFlag(h) ==
  /\ hs[h].op = "acquire" /\ hs[h].pc = "flag"
  /\ queue' = FlagSet(queue)
  /\ Set(h, Respond(hs[h], 200))
  /\ UNCHANGED <<requests, orderSeq, redisLock, redisHead, now, calls, handledIncs, lockedEver>>
  /\ UNCHANGED <<runnerVars, datasetVars, logVars>>

\* ------------------------ PUT /request-queues/:id/requests/:requestId/lock
StartProlong(h, r, c, secs) ==
  /\ Takes(h)
  /\ r \in DOMAIN requests
  /\ calls' = calls + 1
  /\ Set(h, [IdleH EXCEPT !.op = "prolong", !.pc = "store", !.call = calls + 1,
                          !.req = r, !.client = c, !.lockSecs = secs])
  /\ UNCHANGED <<requests, queue, orderSeq, redisLock, redisHead, now, handledIncs, lockedEver>>
  /\ UNCHANGED <<runnerVars, datasetVars, logVars>>

\* "Prolong in Redis": lockRequest, its result dropped
ProlongStore(h) ==
  /\ hs[h].op = "prolong" /\ hs[h].pc = "store"
  /\ redisLock' = SetNX(redisLock, hs[h].req, hs[h].client, hs[h].lockSecs)
  /\ Set(h, [hs[h] EXCEPT !.pc = "mirror"])
  /\ UNCHANGED <<requests, queue, orderSeq, redisHead, now, calls, handledIncs, lockedEver>>
  /\ UNCHANGED <<runnerVars, datasetVars, logVars>>

\* "Prolong in DB": UPDATE requests SET locked_until = NOW() + lockSecs
ProlongMirror(h) ==
  /\ hs[h].op = "prolong" /\ hs[h].pc = "mirror"
  /\ requests' = [requests EXCEPT ![hs[h].req].lockedUntil = now + hs[h].lockSecs]
  /\ Set(h, Respond(hs[h], 200))
  /\ UNCHANGED <<queue, orderSeq, redisLock, redisHead, now, calls, handledIncs, lockedEver>>
  /\ UNCHANGED <<runnerVars, datasetVars, logVars>>

\* --------------------- DELETE /request-queues/:id/requests/:requestId/lock
StartRelease(h, r, c) ==
  /\ Takes(h)
  /\ r \in DOMAIN requests
  /\ calls' = calls + 1
  /\ Set(h, [IdleH EXCEPT !.op = "release", !.pc = "relget", !.call = calls + 1,
                          !.req = r, !.client = c])
  /\ UNCHANGED <<requests, queue, orderSeq, redisLock, redisHead, now, handledIncs, lockedEver>>
  /\ UNCHANGED <<runnerVars, datasetVars, logVars>>

\* releaseLock(queue, id, clientKey): GET, and the comparison
ReleaseGet(h) ==
  /\ hs[h].op = "release" /\ hs[h].pc = "relget"
  /\ IF StoreHolder(hs[h].req) = hs[h].client
       THEN Set(h, [hs[h] EXCEPT !.pc = "reldel"])
       ELSE Set(h, [hs[h] EXCEPT !.pc = "mirror"])
  /\ QueueFrame
  /\ UNCHANGED <<runnerVars, datasetVars, logVars>>

\* releaseLock: DEL
ReleaseDel(h) ==
  /\ hs[h].op = "release" /\ hs[h].pc = "reldel"
  /\ redisLock' = Del(redisLock, hs[h].req)
  /\ Set(h, [hs[h] EXCEPT !.pc = "mirror"])
  /\ UNCHANGED <<requests, queue, orderSeq, redisHead, now, calls, handledIncs, lockedEver>>
  /\ UNCHANGED <<runnerVars, datasetVars, logVars>>

\* "Clear in DB": UPDATE requests SET locked_until = NULL, locked_by = NULL
ReleaseMirror(h) ==
  /\ hs[h].op = "release" /\ hs[h].pc = "mirror"
  /\ requests' = [requests EXCEPT ![hs[h].req].lockedUntil = NullTime,
                                  ![hs[h].req].lockedBy = NoClient]
  /\ Set(h, Respond(hs[h], 204))
  /\ UNCHANGED <<queue, orderSeq, redisLock, redisHead, now, calls, handledIncs, lockedEver>>
  /\ UNCHANGED <<runnerVars, datasetVars, logVars>>

\* ------------------------------------------------------------------ clock
\* a second passes; Redis drops the lock keys whose TTL has run out
Tick ==
  /\ now < MaxTime
  /\ now' = now + 1
  /\ redisLock' = Unexpired(redisLock, now + 1)
  /\ UNCHANGED <<requests, queue, orderSeq, redisHead, hs, calls, handledIncs, lockedEver>>
  /\ UNCHANGED <<runnerVars, datasetVars, logVars>>

\* ===================================================================== logs
\* the entries of a run's log: a line of the container's output, a message of
\* the driver, or the body of an append call
OutLine(n) == <<"out", n>>

\* the messages executeRun pushes itself: the start message before the
\* container runs and the finish message after it has exited
MaxDriverLogs == 2

\* LRANGE key -n -1, and what LTRIM key -n -1 keeps: the last n entries
LastN(list, n) ==
  IF Len(list) <= n THEN list ELSE SubSeq(list, Len(list) - n + 1, Len(list))

\* lrange(`logs:${runId}`, -50, -1)
ReplayLast == 50

\* redis.publish(`logs:${runId}`, entry): the message handler of a
\* subscribed connection writes the entry to its socket
Published(e) ==
  IF sub.pc = "none" THEN sub ELSE [sub EXCEPT !.sent = Append(@, e)]

\* no log, no subscriber, the container has not started
LogInit ==
  /\ ring = <<>>
  /\ sub = [pc |-> "none", sent |-> <<>>]
  /\ streams = <<>>
  /\ emitted = 0
  /\ driverLogs = 0
  /\ appendLog = [pc |-> "idle", call |-> 0]

\* executeRun: redis.rpush of the start message and of the finish message,
\* with no LTRIM and no PUBLISH
DriverLog ==
  /\ driverLogs < MaxDriverLogs
  /\ driverLogs' = driverLogs + 1
  /\ ring' = Append(ring, <<"drv", driverLogs + 1>>)
  /\ UNCHANGED <<sub, streams, emitted, appendLog>>
  /\ UNCHANGED <<runnerVars, queueVars, datasetVars>>

\* streamLogs, 'data': a chunk of n complete lines arrives while the
\* container runs; the handler splits it and sends the RPUSH of its first
\* line. The commands of all handlers go over one connection, so Redis
\* carries them out in the order they are sent
ChunkArrives(n) ==
  /\ driverLogs = 1
  /\ emitted + n <= MaxLines
  /\ emitted' = emitted + n
  /\ streams' = Append(streams, [lines |-> [i \in 1..n |-> emitted + i],
                                 idx |-> 1, pc |-> "ltrim"])
  /\ ring' = Append(ring, OutLine(emitted + 1))
  /\ UNCHANGED <<sub, driverLogs, appendLog>>
  /\ UNCHANGED <<runnerVars, queueVars, datasetVars>>

\* streamLogs: the RPUSH has returned, ltrim(`logs:${runId}`, -1000, -1)
StreamLtrim(k) ==
  /\ k \in DOMAIN streams
  /\ streams[k].pc = "ltrim"
  /\ ring' = LastN(ring, LogCap)
  /\ streams' = [streams EXCEPT ![k].pc = "publish"]
  /\ UNCHANGED <<sub, emitted, driverLogs, appendLog>>
  /\ UNCHANGED <<runnerVars, queueVars, datasetVars>>

\* streamLogs: the LTRIM has returned, expire (which changes nothing that is
\* modelled) and then publish
StreamPublish(k) ==
  /\ k \in DOMAIN streams
  /\ streams[k].pc = "publish"
  /\ sub' = Published(OutLine(streams[k].lines[streams[k].idx]))
  /\ streams' = [streams EXCEPT ![k].pc = "next"]
  /\ UNCHANGED <<ring, emitted, driverLogs, appendLog>>
  /\ UNCHANGED <<runnerVars, queueVars, datasetVars>>

\* streamLogs: the PUBLISH has returned; the loop sends the RPUSH of the
\* handler's next line, or the handler ends
StreamNext(k) ==
  /\ k \in DOMAIN streams
  /\ streams[k].pc = "next"
  /\ IF streams[k].idx < Len(streams[k].lines)
       THEN /\ ring' = Append(ring, OutLine(streams[k].lines[streams[k].idx + 1]))
            /\ streams' = [streams EXCEPT ![k].idx = @ + 1, ![k].pc = "ltrim"]
       ELSE /\ streams' = [streams EXCEPT ![k].pc = "end"]
            /\ UNCHANGED ring
  /\ UNCHANGED <<sub, emitted, driverLogs, appendLog>>
  /\ UNCHANGED <<runnerVars, queueVars, datasetVars>>

\* POST /actor-runs/:runId/logs: rpush
AppendRpush ==
  /\ appendLog.pc = "idle"
  /\ appendLog.call < MaxLogCalls
  /\ ring' = Append(ring, <<"api", appendLog.call + 1>>)
  /\ appendLog' = [pc |-> "ltrim", call |-> appendLog.call + 1]
  /\ UNCHANGED <<sub, streams, emitted, driverLogs>>
  /\ UNCHANGED <<runnerVars, queueVars, datasetVars>>

\* POST /actor-runs/:runId/logs: ltrim(`logs:${runId}`, -1000, -1)
AppendLtrim ==
  /\ appendLog.pc = "ltrim"
  /\ ring' = LastN(ring, LogCap)
  /\ appendLog' = [appendLog EXCEPT !.pc = "publish"]
  /\ UNCHANGED <<sub, streams, emitted, driverLogs>>
  /\ UNCHANGED <<runnerVars, queueVars, datasetVars>>

\* POST /actor-runs/:runId/logs: publish, then the response
AppendPublish ==
  /\ appendLog.pc = "publish"
  /\ sub' = Published(<<"api", appendLog.call>>)
  /\ appendLog' = [appendLog EXCEPT !.pc = "idle"]
  /\ UNCHANGED <<ring, streams, emitted, driverLogs>>
  /\ UNCHANGED <<runnerVars, queueVars, datasetVars>>

\* GET /actor-runs/:runId/logs/stream: the duplicated connection subscribes
\* to logs:<runId> and the message handler is attached
Subscribe ==
  /\ sub.pc = "none"
  /\ sub' = [sub EXCEPT !.pc = "subscribed"]
  /\ UNCHANGED <<ring, streams, emitted, driverLogs, appendLog>>
  /\ UNCHANGED <<runnerVars, queueVars, datasetVars>>

\* GET /actor-runs/:runId/logs/stream: lrange(-50, -1) returns and each entry
\* is written to the socket
Replay ==
  /\ sub.pc = "subscribed"
  /\ sub' = [pc |-> "open", sent |-> sub.sent \o LastN(ring, ReplayLast)]
  /\ UNCHANGED <<ring, streams, emitted, driverLogs, appendLog>>
  /\ UNCHANGED <<runnerVars, queueVars, datasetVars>>

\* ========================================================== specifications
EmptyFn == [x \in {} |-> 0]

\* the queue exists and is empty, no call is in flight
QueueInit ==
  /\ requests = EmptyFn
  /\ queue = NewQueue
  /\ orderSeq = 0
  /\ redisLock = EmptyFn
  /\ redisHead = EmptyFn
  /\ now = 0
  /\ hs = [h \in Handlers |-> IdleH]
  /\ calls = 0
  /\ handledIncs = EmptyFn
  /\ lockedEver = {}

\* the queue after AddRequest of key "a" and then of key "b"
LockInit ==
  /\ requests = (1 :> NewRow("a", 1)) @@ (2 :> NewRow("b", 2))
  /\ queue = [NewQueue EXCEPT !.total = 2, !.pending = 2]
  /\ orderSeq = 2
  /\ redisLock = EmptyFn
  /\ redisHead = (1 :> 1) @@ (2 :> 2)
  /\ now = 0
  /\ hs = [h \in Handlers |-> IdleH]
  /\ calls = 0
  /\ handledIncs = EmptyFn
  /\ lockedEver = {}

\* ================================================================== dataset
\* a handler of POST /datasets/:datasetId/items that is not running
NoPush == [pc |-> "idle", call |-> 0, size |-> 0, startCount |-> 0, put |-> {},
           lost |-> {}]

\* the dataset exists and is empty, no call is in flight
DatasetInit ==
  /\ dataset = [itemCount |-> 0]
  /\ objects = EmptyFn
  /\ pushes = [p \in Handlers |-> NoPush]
  /\ pushCalls = 0
  /\ accepted = EmptyFn

\* a call with a body of n items arrives: SELECT * FROM datasets is sent
StartPush(p, n) ==
  /\ pushes[p].pc \in {"idle", "done"}
  /\ \A q \in Handlers : q < p => pushes[q].pc \notin {"idle", "done"}
  /\ pushCalls' = pushCalls + 1
  /\ accepted' = ((pushCalls + 1) :> n) @@ accepted
  /\ pushes' = [pushes EXCEPT ![p] = [pc |-> "select", call |-> pushCalls + 1, size |-> n,
                                       startCount |-> 0, put |-> {}, lost |-> {}]]
  /\ UNCHANGED <<dataset, objects>>
  /\ UNCHANGED <<runnerVars, queueVars, logVars>>

\* the SELECT returns: startCount = ds.item_count, and the putDatasetItem
\* calls of the chunk are started
PushSelect(p) ==
  /\ pushes[p].pc = "select"
  /\ pushes' = [pushes EXCEPT ![p].startCount = dataset.itemCount, ![p].pc = "put"]
  /\ UNCHANGED <<dataset, objects, pushCalls, accepted>>
  /\ UNCHANGED <<runnerVars, queueVars, logVars>>

\* the object key of an item: datasets/<id>/<itemIndex>.json
ItemIndex(p, i) == pushes[p].startCount + i

\* putDatasetItem(ds.id, startCount + i + index, item): one PutObject, which
\* replaces the object the key holds; after the last one Promise.all resolves.
\* The PutObjects of a chunk are all sent before the first await, so those
\* still in flight when Promise.all has rejected are carried out as well
PutDatasetItem(p, i) ==
  /\ pushes[p].pc \in {"put", "failed"}
  /\ i \in (0..(pushes[p].size - 1)) \ (pushes[p].put \cup pushes[p].lost)
  /\ objects' = (ItemIndex(p, i) :> <<pushes[p].call, i>>) @@ objects
  /\ pushes' = [pushes EXCEPT ![p].put = @ \cup {i},
                              ![p].pc = IF pushes[p].pc = "failed" THEN "failed"
                                        ELSE IF pushes[p].put \cup {i} = 0..(pushes[p].size - 1)
                                          THEN "update" ELSE "put"]
  /\ UNCHANGED <<dataset, pushCalls, accepted>>
  /\ UNCHANGED <<runnerVars, queueVars, logVars>>

\* a PutObject of the chunk fails: Promise.all rejects at the first failure,
\* the handler throws and the call is answered with an error; the UPDATE of
\* item_count is not reached
PutFails(p, i) ==
  /\ pushes[p].pc \in {"put", "failed"}
  /\ i \in (0..(pushes[p].size - 1)) \ (pushes[p].put \cup pushes[p].lost)
  /\ pushes' = [pushes EXCEPT ![p].lost = @ \cup {i}, ![p].pc = "failed"]
  /\ UNCHANGED <<dataset, objects, pushCalls, accepted>>
  /\ UNCHANGED <<runnerVars, queueVars, logVars>>

\* listDatasetItems: the keys under datasets/<id>/ are listed, total is
\* their number, and the objects are read in key order
ListDatasetItems == [total |-> Cardinality(DOMAIN objects), items |-> objects]

\* UPDATE datasets SET item_count = $1 WHERE id = $2 with
\* currentCount = startCount + items.length, then the 201 response
PushUpdate(p) ==
  /\ pushes[p].pc = "update"
  /\ dataset' = [dataset EXCEPT !.itemCount = pushes[p].startCount + pushes[p].size]
  /\ pushes' = [pushes EXCEPT ![p].pc = "done"]
  /\ UNCHANGED <<objects, pushCalls, accepted>>
  /\ UNCHANGED <<runnerVars, queueVars, logVars>>

\* ---- the runner's workers and the runs table
InitDispatch == RunnerInit /\ QueueInit /\ DatasetInit /\ LogInit

\* the API creating runs and the runner processes W claiming and driving them
DispatchBy(W) ==
  \/ \E r \in RunIds : CreateRunStart(r)
  \/ \E r \in RunIds : CreateRunDataset(r)
  \/ \E r \in RunIds : CreateRunKvStore(r)
  \/ \E r \in RunIds : CreateRunQueue(r)
  \/ \E r \in RunIds : CreateRunInput(r)
  \/ \E r \in RunIds : CreateRun(r)
  \/ \E r \in RunIds : CreateRunPublish(r)
  \/ \E w \in W : ProcessNextRunSkip(w)
  \/ \E w \in W : ProcessNextRunEnter(w)
  \/ \E w \in W : ProcessNextRunSelect(w)
  \/ \E w \in W : ProcessNextRunUpdate(w)
  \/ \E w \in W, r \in RunIds, e \in ExitCodes : ContainerExits(w, r, e)
  \/ \E w \in W, r \in RunIds : TimeoutFires(w, r)
  \/ \E w \in W, r \in RunIds : ContainerStopped(w, r)
  \/ \E w \in W, r \in RunIds : ExecuteRunThrows(w, r)
  \/ \E w \in W, r \in RunIds : ProcessRunFinish(w, r)
  \/ \E w \in W, r \in RunIds : WebhooksThrow(w, r)
  \/ \E w \in W, r \in RunIds : ProcessRunCatch(w, r)
  \/ \E w \in W, r \in RunIds : ProcessRunSettled(w, r)

NextDispatch == DispatchBy(Workers)

SpecDispatch == InitDispatch /\ [][NextDispatch]_vars

\* one runner process
OneWorker == {CHOOSE w \in Workers : \A v \in Workers : w <= v}

NextDrive == DispatchBy(OneWorker)

\* ---- one runner process, with a driver that is not held up for ever: the Node.js
\* event loop runs every continuation whose promise has settled, so a driver
\* whose await has returned takes its next step
DriverFair ==
  \A w \in Workers, r \in RunIds :
    /\ WF_vars(ContainerStopped(w, r))
    /\ WF_vars(ProcessRunFinish(w, r))
    /\ WF_vars(ProcessRunCatch(w, r))
    /\ WF_vars(ProcessRunSettled(w, r))

SpecDrive == InitDispatch /\ [][NextDrive]_vars /\ DriverFair

\* ---- one runner process that stays alive: its poll loop calls processNextRun
\* every pollInterval, the queries of a claim step return, and executeRun
\* ends, at the latest when its timeout timer fires
LiveFair ==
  \A w \in OneWorker :
    /\ WF_vars(ProcessNextRunEnter(w))
    /\ WF_vars(ProcessNextRunSelect(w))
    /\ WF_vars(ProcessNextRunUpdate(w))
    /\ \A r \in RunIds :
         WF_vars(TimeoutFires(w, r) \/ \E e \in ExitCodes : ContainerExits(w, r, e))

SpecLive == InitDispatch /\ [][NextDrive]_vars /\ DriverFair /\ LiveFair

\* ---- the same, with runner processes that may die; what is not dead runs
NextOrphan ==
  \/ NextDrive
  \/ \E w \in OneWorker : WorkerCrash(w)

SpecOrphan == InitDispatch /\ [][NextOrphan]_vars /\ WF_vars(NextDrive) /\ DriverFair

\* ---- the runs table under one runner process and the /actor-runs routes
InitRuns == RunnerInit /\ QueueInit /\ DatasetInit /\ LogInit

NextRuns ==
  \/ NextDrive
  \/ \E r \in RunIds, s \in Statuses : runResp.call < MaxApiCalls /\ UpdateStatus(r, s)
  \/ \E r \in RunIds : runResp.call < MaxApiCalls /\ AbortRun(r)
  \/ \E r \in RunIds : runResp.call < MaxApiCalls /\ ResurrectRun(r)

SpecRuns == InitRuns /\ [][NextRuns]_vars

\* ---- producers of one dataset
InitPush == RunnerInit /\ QueueInit /\ DatasetInit /\ LogInit

NextPush ==
  \/ \E p \in Handlers, n \in 1..MaxItems : pushCalls < MaxPushCalls /\ StartPush(p, n)
  \/ \E p \in Handlers : PushSelect(p)
  \/ \E p \in Handlers, i \in 0..(MaxItems - 1) : PutDatasetItem(p, i)
  \/ \E p \in Handlers : PushUpdate(p)

SpecPush == InitPush /\ [][NextPush]_vars

\* ---- PushItems calls on one dataset whose blob writes may fail
NextPushFail ==
  \/ NextPush
  \/ \E p \in Handlers, i \in 0..(MaxItems - 1) : PutFails(p, i)

SpecPushFail == InitPush /\ [][NextPushFail]_vars

\* ---- the log of one run: its container's output, the driver's messages,
\* the append route and one WebSocket subscriber
InitLog == RunnerInit /\ QueueInit /\ DatasetInit /\ LogInit

NextLog ==
  \/ DriverLog
  \/ \E n \in 1..MaxChunk : ChunkArrives(n)
  \/ \E k \in 1..MaxLines : StreamLtrim(k)
  \/ \E k \in 1..MaxLines : StreamPublish(k)
  \/ \E k \in 1..MaxLines : StreamNext(k)
  \/ AppendRpush
  \/ AppendLtrim
  \/ AppendPublish
  \/ Subscribe
  \/ Replay

SpecLog == InitLog /\ [][NextLog]_vars

\* ---- producers and consumers of one queue, no leases
InitAdd == RunnerInit /\ QueueInit /\ DatasetInit /\ LogInit

NextAdd ==
  \/ \E h \in Handlers, k \in Keys, ff \in BOOLEAN :
       calls < MaxAddCalls /\ StartAdd(h, k, ff)
  \/ \E h \in Handlers : AddCheck(h)
  \/ \E h \in Handlers : AddInsert(h)
  \/ \E h \in Handlers : AddCount(h)
  \/ \E h \in Handlers : AddHead(h)
  \/ \E h \in Handlers, body \in BatchBodies :
       calls < MaxAddCalls /\ StartBatch(h, body)
  \/ \E h \in Handlers, i \in 1..MaxBatch : BatchItemCheck(h, i)
  \/ \E h \in Handlers, i \in 1..MaxBatch : BatchItemInsert(h, i)
  \/ \E h \in Handlers : BatchCount(h)
  \/ \E h \in Handlers, r \in DOMAIN requests, p \in Patches :
       calls < MaxAddCalls /\ StartUpdate(h, r, p, "W1")
  \/ \E h \in Handlers : UpdateRead(h)
  \/ \E h \in Handlers : UpdateWrite(h)
  \/ \E h \in Handlers : UpdateReleaseGet(h)
  \/ \E h \in Handlers : UpdateCount(h)
  \/ \E h \in Handlers : UpdateZrem(h)

SpecAdd == InitAdd /\ [][NextAdd]_vars

\* ---- consumers of one queue holding two requests, with leases and a clock
InitLock == RunnerInit /\ LockInit /\ DatasetInit /\ LogInit

LockSecs == 1..MaxLockSecs

ProlongSecs == 1..MaxProlongSecs

\* client keys are interchangeable: the first call is W1's
Caller(c) == calls = 0 => c = "W1"

NextLock ==
  \/ \E h \in Handlers, c \in Clients, n \in 1..MaxLimit, s \in LockSecs :
       calls < MaxCalls /\ Caller(c) /\ StartAcquire(h, c, n, s)
  \/ \E h \in Handlers, n \in 1..MaxLimit :
       calls < MaxCalls /\ StartGetHead(h, n)
  \/ \E h \in Handlers : GetHeadSelect(h)
  \/ \E h \in Handlers : AcquireSelect(h)
  \/ \E h \in Handlers : AcquireLock(h)
  \/ \E h \in Handlers : AcquireMirror(h)
  \/ \E h \in Handlers : AcquireCounts(h)
  \/ \E h \in Handlers : AcquireFlag(h)
  \/ \E h \in Handlers, r \in DOMAIN requests, c \in Clients, s \in ProlongSecs :
       calls < MaxCalls /\ Caller(c) /\ StartProlong(h, r, c, s)
  \/ \E h \in Handlers : ProlongStore(h)
  \/ \E h \in Handlers : ProlongMirror(h)
  \/ \E h \in Handlers, r \in DOMAIN requests, c \in Clients :
       calls < MaxCalls /\ Caller(c) /\ StartRelease(h, r, c)
  \/ \E h \in Handlers : ReleaseGet(h)
  \/ \E h \in Handlers : ReleaseDel(h)
  \/ \E h \in Handlers : ReleaseMirror(h)
  \/ \E h \in Handlers, r \in DOMAIN requests, p \in Patches, c \in Clients :
       calls < MaxCalls /\ Caller(c) /\ StartUpdate(h, r, p, c)
  \/ \E h \in Handlers : UpdateRead(h)
  \/ \E h \in Handlers : UpdateWrite(h)
  \/ \E h \in Handlers : UpdateReleaseGet(h)
  \/ \E h \in Handlers : UpdateReleaseDel(h)
  \/ \E h \in Handlers : UpdateCount(h)
  \/ \E h \in Handlers : UpdateZrem(h)
  \/ Tick

SpecLock == InitLock /\ [][NextLock]_vars

\* ---- producers (with forefront) and readers of the head of one queue
InitHead == RunnerInit /\ QueueInit /\ DatasetInit /\ LogInit

NextHead ==
  \/ \E h \in Handlers, k \in Keys, ff \in BOOLEAN :
       calls < MaxHeadCalls /\ StartAdd(h, k, ff)
  \/ \E h \in Handlers : AddCheck(h)
  \/ \E h \in Handlers : AddInsert(h)
  \/ \E h \in Handlers : AddCount(h)
  \/ \E h \in Handlers : AddHead(h)
  \/ \E h \in Handlers, n \in 1..MaxLimit :
       calls < MaxHeadCalls /\ StartGetHead(h, n)
  \/ \E h \in Handlers : GetHeadSelect(h)
  \/ \E h \in Handlers, c \in Clients, n \in 1..MaxLimit, s \in LockSecs :
       calls < MaxHeadCalls /\ StartAcquire(h, c, n, s)
  \/ \E h \in Handlers : AcquireSelect(h)
  \/ \E h \in Handlers : AcquireLock(h)
  \/ \E h \in Handlers : AcquireMirror(h)
  \/ \E h \in Handlers : AcquireCounts(h)
  \/ \E h \in Handlers : AcquireFlag(h)

SpecHead == InitHead /\ [][NextHead]_vars

\* ================================================================== claims

\* C1: each READY run is handed to a container driver by exactly one worker,
\* however many workers run the claim step at once: no run has had processRun
\* called on it by two workers.
C1_OneWorkerPerRun == \A r \in RunIds : Cardinality(dispatched[r]) <= 1

\* the clientKeys that hold an unexpired lease on request r, by the lock key
\* in Redis or by the locked_by / locked_until columns of the row
LeaseHolders(r) ==
  ({StoreHolder(r)}
     \cup {IF RowLocked(requests[r]) THEN requests[r].lockedBy ELSE NoClient})
  \ {NoClient}

\* C2: for every request, in every reachable state, at most one clientKey has
\* an unexpired lease on it, the lease being what the Redis lock key and the
\* row mirror record.
C2_AtMostOneLeaseHolder ==
  \A r \in DOMAIN requests : Cardinality(LeaseHolders(r)) <= 1

\* C3: AcquireHead returns at most `limit` requests, and a request joins the
\* returned list only through lockRequest answering OK, which it does only
\* when no unexpired lock key of the request is in Redis, whatever the row says.
C3_AcquireRespectsStore ==
  [][\A h \in Handlers :
       (hs[h].op = "acquire" /\ hs[h].pc # "done") =>
         /\ Len(hs'[h].locked) <= hs'[h].limit
         /\ (hs[h].pc = "lock" /\ hs'[h].pc = "mirror")
              => StoreHolder(hs[h].cand[hs[h].idx]) = NoClient
         /\ hs'[h].locked # hs[h].locked
              => /\ hs[h].pc = "mirror"
                 /\ hs'[h].locked = Append(hs[h].locked, hs[h].cand[hs[h].idx])
    ]_vars

\* C3's case: an AcquireHead of W2 has read a request as unlocked in its row
\* and stands at it, while W1's unexpired lock key is in Redis; and one that
\* returned as many requests as its limit allows.
C3_Witness ==
  \E h \in Handlers :
    /\ hs[h].op = "acquire" /\ hs[h].pc = "counts"
    /\ Len(hs[h].locked) < Len(hs[h].cand)
    /\ \E i \in 1..Len(hs[h].cand) :
         /\ \A j \in 1..Len(hs[h].locked) : hs[h].locked[j] # hs[h].cand[i]
         /\ StoreHolder(hs[h].cand[i]) \notin {NoClient, hs[h].client}
         /\ ~RowLocked(requests[hs[h].cand[i]])

\* C4: an UpdateRequest that reads the request while another clientKey holds
\* an unexpired lease on it is answered 409 and changes nothing.
C4_UpdateRejectedWhenLeasedByOther ==
  [][\A h \in Handlers :
       (/\ hs[h].op = "update" /\ hs[h].pc = "read" /\ hs'[h].pc # "read"
        /\ LeaseHolders(hs[h].req) \ {hs[h].client} # {})
         => hs'[h].pc = "done" /\ hs'[h].status = 409
    ]_vars

\* C5: in every reachable state at most one request row exists for a
\* uniqueKey of the queue.
C5_OneRowPerUniqueKey ==
  \A a \in DOMAIN requests : \A b \in DOMAIN requests :
    requests[a].uniqueKey = requests[b].uniqueKey => a = b

\* C5's case: an element of a batch was refused by the unique constraint, the
\* row of its key having been inserted between its lookup and its INSERT.
C5_Witness ==
  \E h \in Handlers : \E i \in DOMAIN hs[h].items :
    /\ hs[h].op = "batch"
    /\ hs[h].items[i].pc = "unprocessed"
    /\ Cardinality(RowsWithKey(hs[h].items[i].key)) = 1

\* no call is in flight
Quiescent == \A h \in Handlers : Free(h)

\* C6: when the concurrent AddRequestsBatch calls have all returned, the queue
\* holds exactly one row for every uniqueKey they submitted and
\* totalRequestCount is the number of rows.
C6_BatchDedupFinal ==
  Quiescent =>
    /\ queue.total = Cardinality(DOMAIN requests)
    /\ \A h \in Handlers : \A i \in DOMAIN hs[h].items :
         hs[h].op = "batch" => Cardinality(RowsWithKey(hs[h].items[i].key)) = 1

\* C6's case: two batch calls have returned, one with the same uniqueKey twice
\* in its body (its second INSERT refused), the other submitting that key too.
C6_Witness ==
  /\ Quiescent
  /\ \E g \in Handlers : \E h \in Handlers \ {g} :
       /\ hs[g].op = "batch" /\ hs[h].op = "batch"
       /\ \E i \in DOMAIN hs[g].items : \E j \in DOMAIN hs[g].items :
            /\ i # j
            /\ hs[g].items[i].key = hs[g].items[j].key
            /\ hs[g].items[j].pc = "unprocessed"
            /\ \E k \in DOMAIN hs[h].items : hs[h].items[k].key = hs[g].items[i].key

\* C7: an AddRequest whose dedup lookup finds a row of its uniqueKey (so any
\* AddRequest made after an AddRequest of that key has returned) answers
\* wasAlreadyPresent = true with the id of that row, which is the id the
\* inserting call returned, and changes neither the rows nor the counters.
C7_IdempotentAdd ==
  [][\A h \in Handlers :
       (/\ hs[h].op = "add" /\ hs[h].pc = "check" /\ hs'[h].pc # "check"
        /\ RowsWithKey(hs[h].key) # {})
         => /\ hs'[h].pc = "done" /\ hs'[h].status = 200
            /\ hs'[h].present
            /\ hs'[h].rid \in RowsWithKey(hs[h].key)
            /\ requests' = requests
            /\ queue' = queue
            /\ \A g \in Handlers :
                 (/\ hs[g].op = "add" /\ hs[g].pc = "done" /\ hs[g].status = 201
                  /\ hs[g].key = hs[h].key)
                   => hs'[h].rid = hs[g].rid
    ]_vars

\* C7's case: an AddRequest has returned 201 and a second AddRequest of the
\* same uniqueKey has returned after it, the row count still one.
C7_Witness ==
  \E g \in Handlers : \E h \in Handlers \ {g} :
    /\ hs[g].op = "add" /\ hs[g].pc = "done" /\ hs[g].status = 201
    /\ hs[h].op = "add" /\ hs[h].pc = "done" /\ hs[h].status = 200
    /\ hs[h].key = hs[g].key
    /\ hs[h].present /\ hs[h].rid = hs[g].rid
    /\ queue.total = 1

\* C8: AddRequest calls of one uniqueKey that overlap in time all complete
\* successfully: every AddRequest is answered 201 (inserted) or 200
\* (wasAlreadyPresent), never with an error.
C8_OverlappingAddsSucceed ==
  \A h \in Handlers :
    (hs[h].op = "add" /\ hs[h].pc = "done") => hs[h].status \in {200, 201}

\* C9: in every reachable state pendingRequestCount =
\* totalRequestCount - handledRequestCount.
C9_PendingIsTotalMinusHandled == queue.pending = queue.total - queue.handled

\* C9's case: requests have been added and one of them has been
\* marked handled.
C9_Witness == queue.total >= 2 /\ queue.handled >= 1 /\ queue.pending >= 1

\* C10: for each request the handled count is incremented (and the pending
\* count decremented) at most once, and only for a request whose handledAt is
\* set.
C10_HandledCountedOnce ==
  \A r \in DOMAIN handledIncs :
    handledIncs[r] <= 1 /\ requests[r].handledAt

\* C11: whenever GetHead or AcquireHead puts a request into the items of its
\* response, the handledAt of that request is not set.
C11_HandledNeverReturned ==
  [][\A h \in Handlers :
       (hs[h].op \in {"head", "acquire"} /\ hs[h].pc # "done")
         => \A i \in DOMAIN hs'[h].locked :
              i \notin DOMAIN hs[h].locked => ~requests[hs'[h].locked[i]].handledAt
    ]_vars

\* the coordination store records an unexpired lease on r of a client other
\* than c
HeldByOther(r, c) == StoreHolder(r) \notin {NoClient, c}

\* C12: no step of a ProlongLock whose clientKey is not the lease holder, the
\* lease being another client's, changes the lease in the store or in the
\* row, and the call is not answered 200.
C12_ProlongByNonHolderFails ==
  [][\A h \in Handlers :
       (/\ hs[h].op = "prolong" /\ hs[h].pc # "done" /\ hs'[h] # hs[h]
        /\ HeldByOther(hs[h].req, hs[h].client))
         => /\ requests' = requests
            /\ redisLock' = redisLock
            /\ hs'[h].pc = "done" => hs'[h].status # 200
    ]_vars

\* C13: no step of a ReleaseLock whose clientKey is not the lease holder, the
\* lease being another client's, changes the lease in the store or in the
\* row, and the call is not answered 204.
C13_ReleaseByNonHolderFails ==
  [][\A h \in Handlers :
       (/\ hs[h].op = "release" /\ hs[h].pc # "done" /\ hs'[h] # hs[h]
        /\ HeldByOther(hs[h].req, hs[h].client))
         => /\ requests' = requests
            /\ redisLock' = redisLock
            /\ hs'[h].pc = "done" => hs'[h].status # 204
    ]_vars

\* the elements of a sequence
Range(q) == {q[i] : i \in DOMAIN q}

\* the lease on r has run out: the row still records a lock, its locked_until
\* has passed, the store holds no key, and r is not handled
LeaseLapsed(r) ==
  /\ ~requests[r].handledAt
  /\ requests[r].lockedBy # NoClient
  /\ requests[r].lockedUntil # NullTime /\ requests[r].lockedUntil < now
  /\ StoreHolder(r) = NoClient

\* r is among the first n pending (unhandled) requests in order_no order
WithinFirstPending(r, n) ==
  Cardinality({o \in DOMAIN requests :
                 ~requests[o].handledAt /\ requests[o].orderNo < requests[r].orderNo}) < n

C15_ReleaseReturnsToPending ==
  [][\A h \in Handlers :
       hs'[h] # hs[h] =>
         /\ (hs[h].op = "release" /\ hs[h].pc = "relget"
             /\ StoreHolder(hs[h].req) = hs[h].client) => hs'[h].pc = "reldel"
         /\ (hs[h].op = "release" /\ hs[h].pc = "reldel") =>
              hs[h].req \notin DOMAIN redisLock' /\ hs'[h].pc = "mirror"
         /\ (hs[h].op = "release" /\ hs[h].pc = "mirror") =>
              /\ hs'[h].pc = "done" /\ hs'[h].status = 204
              /\ requests'[hs[h].req].lockedUntil = NullTime
              /\ requests'[hs[h].req].lockedBy = NoClient
              /\ ~requests'[hs[h].req].handledAt => Selectable(hs[h].req)'
         /\ (hs[h].op \in {"head", "acquire"} /\ hs[h].pc = "select") =>
              \A r \in DOMAIN requests :
                (Selectable(r) /\ WithinFirstPending(r, hs[h].limit))
                  => r \in Range(IF hs[h].op = "head" THEN hs'[h].locked ELSE hs'[h].cand)
         /\ (hs[h].op = "acquire" /\ hs[h].pc = "lock"
             /\ StoreHolder(hs[h].cand[hs[h].idx]) = NoClient) => hs'[h].pc = "mirror"
    ]_vars

\* C15's case: W1 locked a request through AcquireHead and released it, and a
\* later AcquireHead of W2 has acquired it. No two calls overlapped, no time
\* has passed and the request was not updated, so W1's lease neither lapsed
\* nor was dropped by an UpdateRequest.
C15_Witness ==
  \E r \in DOMAIN requests : \E h \in Handlers :
    /\ now = 0
    /\ \A g \in Handlers \ {h} : hs[g].op = "idle"
    /\ <<"W1", r>> \in lockedEver
    /\ requests[r].retryCount = 0 /\ ~requests[r].handledAt
    /\ StoreHolder(r) = "W2" /\ requests[r].lockedBy = "W2"
    /\ hs[h].op = "acquire" /\ hs[h].client = "W2" /\ r \in Range(hs[h].locked)

\* C16: when the lease holder prolongs, the store step of ProlongLock leaves
\* the lock key expiring at now + lockSecs, and the row step sets locked_until
\* to now + lockSecs.
C16_ProlongExtendsStore ==
  [][\A h \in Handlers :
       (hs[h].op = "prolong" /\ hs'[h] # hs[h]) =>
         /\ (hs[h].pc = "store" /\ StoreHolder(hs[h].req) = hs[h].client) =>
              redisLock'[hs[h].req].exp = now + hs[h].lockSecs
         /\ hs[h].pc = "mirror" =>
              requests'[hs[h].req].lockedUntil = now + hs[h].lockSecs
    ]_vars

\* the request was added with forefront = true: its score in the head set is
\* negative
AddedForefront(r) == r \in DOMAIN redisHead /\ redisHead[r] < 0

\* the request was added without forefront
AddedFifo(r) == r \in DOMAIN redisHead /\ redisHead[r] > 0

\* C17: in the list GetHead returns, and in the list of candidates AcquireHead
\* reads, every request added with forefront comes before every request added
\* without it.
C17_ForefrontFirst ==
  [][\A h \in Handlers :
       (hs[h].op \in {"head", "acquire"} /\ hs[h].pc = "select" /\ hs'[h] # hs[h]) =>
         LET out == IF hs[h].op = "head" THEN hs'[h].locked ELSE hs'[h].cand
         IN \A i \in DOMAIN out : \A j \in DOMAIN out :
              (AddedForefront(out[i]) /\ AddedFifo(out[j])) => i < j
    ]_vars

\* C18: no step changes hadMultipleClients from true to false.
C18_FlagSticky ==
  [][queue.hadMultipleClients => queue'.hadMultipleClients]_vars

\* C18's case: the flag is true and a request locked by one of the two clients
\* has since been marked handled, so the rows no longer name two clients.
C18_Witness ==
  /\ queue.hadMultipleClients
  /\ ~SeesMultipleClients
  /\ queue.handled >= 1

\* the clientKeys that have locked a request of the queue through AcquireHead
ClientsEver == {p[1] : p \in lockedEver}

\* C19: once two distinct clientKeys have each locked a request of the queue
\* and the calls that did so have returned, hadMultipleClients is true.
C19_FlagAfterTwoClients ==
  (Quiescent /\ Cardinality(ClientsEver) >= 2) => queue.hadMultipleClients

\* C20: for every run, finishedAt is set exactly when its status is terminal.
C20_FinishedIffTerminal ==
  \A r \in RunIds :
    runs[r].status # "NONE" => (runs[r].finishedAt <=> runs[r].status \in Terminal)

\* C21: UpdateStatus does not move a run along a transition the state
\* machine does not have (READY to a terminal status, one terminal status to
\* another, a terminal status to READY, RUNNING to READY): such a call is
\* rejected and the run row is as it was.
C21_InvalidTransitionRejected ==
  [][(runResp'.call # runResp.call /\ runResp'.op = "update") =>
       LET r == runResp'.run
           old == runs[r].status
           new == runs'[r].status
       IN  \/ runs'[r] = runs[r] /\ runResp'.code # 200
           \/ old = "READY" /\ new = "RUNNING"
           \/ old = "RUNNING" /\ new \in Terminal
           \/ old \in Terminal /\ new = "RUNNING"]_vars

\* C22: AbortRun makes a run ABORTED with finishedAt set exactly when the
\* run is RUNNING at the instant of the call, in one step; on a run in any
\* other status it fails and the row is as it was; no other row changes.
C22_AbortOnlyFromRunning ==
  [][(runResp'.call # runResp.call /\ runResp'.op = "abort") =>
       LET r == runResp'.run IN
         /\ \A s \in RunIds \ {r} : runs'[s] = runs[s]
         /\ IF runs[r].status = "RUNNING"
              THEN /\ runs'[r] = [runs[r] EXCEPT !.status = "ABORTED", !.finishedAt = TRUE]
                   /\ runResp'.code = 200
              ELSE /\ runs'[r] = runs[r]
                   /\ runResp'.code # 200]_vars

\* an abort has succeeded on a run whose container is executing
C22_Witness ==
  /\ runResp.op = "abort" /\ runResp.code = 200
  /\ runs[runResp.run].status = "ABORTED"
  /\ runs[runResp.run].finishedAt
  /\ \E w \in Workers : drivers[<<w, runResp.run>>] = "exec"

\* C23: once AbortRun has succeeded on a run whose container is still
\* executing, the completion write of the run's driver leaves the row
\* ABORTED with finishedAt set.
C23_AbortSurvivesDriver ==
  [][\A w \in Workers, r \in RunIds :
       ( /\ runResp.op = "abort" /\ runResp.run = r /\ runResp.code = 200
         /\ runs[r].status = "ABORTED"
         /\ drivers[<<w, r>>] \in {"exited", "catch", "catchLate"}
         /\ drivers'[<<w, r>>] \in {"hooks", "catchHooks"} )
       => (runs'[r].status = "ABORTED" /\ runs'[r].finishedAt)]_vars

\* C24: ResurrectRun on a run in a terminal status, SUCCEEDED included,
\* makes it RUNNING with finishedAt null, in one step.
C24_ResurrectFromAnyTerminal ==
  [][(runResp'.call # runResp.call /\ runResp'.op = "resurrect"
        /\ runs[runResp'.run].status \in Terminal) =>
       /\ runs'[runResp'.run] =
            [runs[runResp'.run] EXCEPT !.status = "RUNNING", !.finishedAt = FALSE]
       /\ runResp'.code = 200]_vars

\* C25: the three storage handles of a run (defaultDatasetId,
\* defaultKeyValueStoreId, defaultRequestQueueId) are the ones CreateRun
\* wrote: no step of dispatch, UpdateStatus, AbortRun, ResurrectRun or a
\* driver's completion write changes them.
C25_StorageHandlesFixed ==
  [][\A r \in RunIds : runs[r].status # "NONE" =>
       /\ runs'[r].defaultDatasetId = runs[r].defaultDatasetId
       /\ runs'[r].defaultKeyValueStoreId = runs[r].defaultKeyValueStoreId
       /\ runs'[r].defaultRequestQueueId = runs[r].defaultRequestQueueId]_vars

\* a run that was dispatched, driven to a terminal status and resurrected
\* refers to the storages of its creation
C25_Witness ==
  \E r \in RunIds :
    /\ runResp.op = "resurrect" /\ runResp.run = r /\ runResp.code = 200
    /\ runs[r].status = "RUNNING"
    /\ dispatched[r] # {}
    /\ \A w \in Workers : drivers[<<w, r>>] = "none"
    /\ runs[r].defaultDatasetId = NanoId(r, 1)
    /\ runs[r].defaultKeyValueStoreId = NanoId(r, 2)
    /\ runs[r].defaultRequestQueueId = NanoId(r, 3)

\* C26: CreateRun inserts the run row in status READY, referring to three
\* storages that exist, are pairwise distinct and belong to no other run, and
\* whose key-value store holds the INPUT record; run:new is published for a
\* run only when its row exists.
C26_RunRowBeforeNotification ==
  /\ [](\A r \in RunIds :
          /\ r \in published => runs[r].status # "NONE"
          /\ runs[r].status # "NONE" =>
               /\ runs[r].defaultDatasetId \in storages.datasets
               /\ runs[r].defaultKeyValueStoreId \in storages.keyValueStores
               /\ runs[r].defaultKeyValueStoreId \in storages.inputs
               /\ runs[r].defaultRequestQueueId \in storages.requestQueues
               /\ Cardinality({runs[r].defaultDatasetId, runs[r].defaultKeyValueStoreId,
                               runs[r].defaultRequestQueueId}) = 3
               /\ \A s \in RunIds \ {r} :
                    /\ runs[s].defaultDatasetId # runs[r].defaultDatasetId
                    /\ runs[s].defaultKeyValueStoreId # runs[r].defaultKeyValueStoreId
                    /\ runs[s].defaultRequestQueueId # runs[r].defaultRequestQueueId)
  /\ [][\A r \in RunIds :
          (runs[r].status = "NONE" /\ runs'[r].status # "NONE") =>
            (runs'[r].status = "READY" /\ r \notin published')]_vars

\* run:new has been published for two runs, and the later one is still READY
C26_Witness ==
  \E r, s \in RunIds :
    /\ r # s
    /\ {r, s} \subseteq published
    /\ runs[s].status = "READY"
    /\ runs[r].status # "NONE"

C29_OrphanReaped ==
  \A r \in RunIds :
    (runs[r].status = "RUNNING" /\ \A w \in Workers : drivers[<<w, r>>] = "none")
      ~> (runs[r].status = "FAILED")

\* C30: when no PushItems call is in flight, itemCount is the number of items
\* of all the calls made, the objects sit at the indices 0..itemCount-1, and
\* the items of each call sit at consecutive indices in the order of its
\* body: no item has been overwritten.
C30_ConcurrentPushesAppend ==
  (\A p \in Handlers : pushes[p].pc \in {"idle", "done"}) =>
    LET all == UNION {{<<c, i>> : i \in 0..(accepted[c] - 1)} : c \in DOMAIN accepted} IN
      /\ dataset.itemCount = Cardinality(all)
      /\ DOMAIN objects = 0..(dataset.itemCount - 1)
      /\ \A c \in DOMAIN accepted : \E base \in 0..dataset.itemCount :
           \A i \in 0..(accepted[c] - 1) :
             base + i \in DOMAIN objects /\ objects[base + i] = <<c, i>>

\* ------------------------------------------------------------------ C36
\* C36: release and prolong are atomic with respect to their ownership
\* check: the DEL sent by a ReleaseLock never removes a lease that another
\* client holds at that moment, and the store step of a ProlongLock never
\* changes one.
C36_ReleaseAtomic ==
  [][\A h \in Handlers :
       /\ ( hs[h].op = "release" /\ hs[h].pc = "reldel" /\ hs'[h].pc = "mirror" ) =>
            ~HeldByOther(hs[h].req, hs[h].client)
       /\ ( hs[h].op = "prolong" /\ hs[h].pc = "store" /\ hs'[h].pc = "mirror"
            /\ HeldByOther(hs[h].req, hs[h].client) ) =>
            redisLock' = redisLock]_vars

\* ------------------------------------------------------------------ C37
\* C37: in every reachable state a request row whose lockedUntil is in the
\* future has lockedBy set.
C37_LockedUntilHasHolder ==
  \A r \in DOMAIN requests :
    requests[r].lockedUntil > now => requests[r].lockedBy # NoClient

\* ------------------------------------------------------------------ C38
\* C38: a successful UpdateRequest by the lease holder that does not set
\* handledAt (a reclaim) clears the lease in the store and in the row mirror:
\* its UPDATE leaves the row with no lock columns, so that the head query
\* lists an unhandled request again, and its releaseLock, finding the
\* caller's key in the store while no other call is in flight, deletes it.
C38_ReclaimClearsLease ==
  [][\A h \in Handlers :
       (hs[h].op = "update" /\ hs[h].patch.handledAt = "absent") =>
         LET r == hs[h].req IN
         /\ (hs[h].pc = "write" /\ hs'[h].pc = "relget") =>
              /\ requests'[r].lockedBy = NoClient
              /\ requests'[r].lockedUntil = NullTime
              /\ ~requests[r].handledAt => ~requests'[r].handledAt
         /\ (hs[h].pc = "relget" /\ hs'[h].pc # "relget"
             /\ StoreHolder(r) = hs[h].client
             /\ \A g \in Handlers \ {h} : Free(g)) =>
              hs'[h].pc = "reldel"
         /\ (hs[h].pc = "reldel" /\ hs'[h].pc # "reldel") =>
              r \notin DOMAIN redisLock']_vars

\* ------------------------------------------------------------------ C31
\* C31: when a blob write of a PushItems call has failed and the call has
\* been answered with an error, ListItems exposes no item of that call:
\* total counts, and items holds, only what the other calls wrote.
C31_FailedPushExposesNothing ==
  \A p \in Handlers :
    pushes[p].pc = "failed" =>
      /\ \A k \in DOMAIN ListDatasetItems.items :
           ListDatasetItems.items[k][1] # pushes[p].call
      /\ ListDatasetItems.total =
           Cardinality({k \in DOMAIN objects : objects[k][1] # pushes[p].call})

\* ------------------------------------------------------------------ C40
\* C40: once a driver has written the terminal status that the exit code
\* maps to, an error raised afterwards by the webhook lookup or delivery does
\* not change the run row: the write of the catch block that follows such an
\* error leaves the row as it was.
C40_WebhookErrorKeepsStatus ==
  [][\A w \in Workers, r \in RunIds :
       (drivers[<<w, r>>] = "catchLate" /\ drivers'[<<w, r>>] = "catchHooks") =>
         runs'[r] = runs[r]]_vars

\* ------------------------------------------------------------------ C34
\* C34: on each worker the number of drivers in flight never exceeds
\* MAX_CONCURRENT_RUNS, and the active counter is the number of drivers in
\* flight: it was incremented once for every run dispatched and decremented
\* once for every driver that settled, by returning or by throwing.
C34_InFlightWithinCap ==
  \A w \in Workers :
    /\ activeRuns[w] = Cardinality({r \in RunIds : drivers[<<w, r>>] # "none"})
    /\ activeRuns[w] <= maxConcurrentRuns

\* a worker whose first driver threw and has settled is at the cap again
\* with the driver of a second run
C34_Witness ==
  \E w \in Workers, r, q \in RunIds :
    /\ r # q
    /\ w \in dispatched[r] /\ drivers[<<w, r>>] = "none"
    /\ runs[r].status = "FAILED"
    /\ drivers[<<w, q>>] # "none"
    /\ activeRuns[w] = maxConcurrentRuns

\* ------------------------------------------------------------------ C35
\* C35: every READY run is eventually claimed and set RUNNING by a live
\* worker, whose runs in flight fall below the cap in the end; this also
\* when the run:new message of the run arrived during a busy claim step and
\* was dropped, since the flag is cleared and a later poll claims the run.
C35_ReadyEventuallyClaimed ==
  \A r \in RunIds :
    (runs[r].status = "READY") ~> (runs[r].status = "RUNNING")

\* the run:new message of a READY run was sent while the claim step of the
\* worker is busy with another run, which it is about to dispatch
C35_Witness ==
  \E w \in OneWorker, r \in RunIds :
    /\ runs[r].status = "READY" /\ r \in published
    /\ isProcessing[w]
    /\ claimRun[w] \notin {NoRun, r}

\* ------------------------------------------------------------------ C32
\* C32: after any sequence of log appends (the append route, the container's
\* output stream and the driver's own messages), none of them still in
\* progress, the ring holds at most the capped number of entries.
C32_RingWithinCap ==
  ( /\ appendLog.pc = "idle"
    /\ \A k \in DOMAIN streams : streams[k].pc = "end" )
  => Len(ring) <= LogCap

\* ------------------------------------------------------------------ C33
\* C33: within one connection no log entry is delivered to the subscriber
\* twice, entries appended while the subscription is set up included.
C33_NoDuplicateDelivery ==
  \A i, j \in DOMAIN sub.sent :
    i # j => sub.sent[i] # sub.sent[j]

\* ------------------------------------------------------------------ C39
\* C39: the entries of one container's output stream are in the ring in the
\* order the container emitted them, also when a chunk arrives while the
\* entries of an earlier chunk are still being written.
C39_StreamOrderKept ==
  \A i, j \in DOMAIN ring :
    (i < j /\ ring[i][1] = "out" /\ ring[j][1] = "out") => ring[i][2] < ring[j][2]

====
